---- MODULE Spec2Model ----
(***************************************************************************)
(* Model of the vPLC CRB metrics collector (src/src/vplc_collector/main.go) *)
(*                                                                         *)
(* The collector polls every configured vPLC instance on a ticker, logs in *)
(* when it has no session, fetches a histogram document and a scalar       *)
(* statistics document, and folds both into Prometheus counter and gauge   *)
(* vectors through a "previous value" delta rule.                          *)
(***************************************************************************)
EXTENDS Integers, Sequences, FiniteSets, TLC

VARIABLES
    previousCounterValues,  \* map[promName]map[vplc_instance]float64
    crbMetrics,             \* map[promName]*CounterVec : children by instance
    crbGauges,              \* map[promName]*GaugeVec   : children by instance
    prevWriteBuckets,       \* map["instance|le"]float64, kind "write"
    prevCycleBuckets,       \* map["instance|le"]float64, kind "cycle"
    writeDurationBuckets,   \* CounterVec, children by (instance, le)
    cycleExtensionBuckets,  \* CounterVec, children by (instance, le)
    token,                  \* per instance: the closure variable token
    authenticated,          \* per instance: the closure variable authenticated
    running,                \* per instance: the int32 guarded by CompareAndSwap
    gor,                    \* per instance: the cycle goroutines and where each one is
    metricsMu,              \* holder of the mutex, or NoHolder
    cycles,                 \* number of cycles started so far
    logins,                 \* per instance: number of logins that succeeded
    lastEvent,              \* the last step taken: <<what, instance, answer of the device>>
    history,                \* inputs applied so far: <<kind, instance, input>>
    fed,                    \* what the last updateHistograms call passed to the delta rule
    process,                \* the process: where main is, its configuration, what it has started
    call                    \* the last call of a helper function: its name, argument, result

scalarVars == <<previousCounterValues, crbMetrics, crbGauges>>

histVars == <<prevWriteBuckets, prevCycleBuckets, writeDurationBuckets, cycleExtensionBuckets>>

sessionVars == <<token, authenticated>>

collectorVars == <<token, authenticated, running, gor, metricsMu, cycles, logins, lastEvent,
                   process, call>>

vars == <<previousCounterValues, crbMetrics, crbGauges, prevWriteBuckets, prevCycleBuckets,
          writeDurationBuckets, cycleExtensionBuckets, token, authenticated, running, gor,
          metricsMu, cycles, logins, lastEvent, history, fed, process, call>>

(***************************************************************************)
(* Bounds of the model.                                                    *)
(***************************************************************************)
\* largest raw value a device reports in a scalar document
MaxRaw == 2
\* number of updateCRBMetrics calls explored by ScalarSpec
MaxUpdates == 3
\* number of updateHistograms calls explored by HistSpec
MaxHistUpdates == 3
\* longest free text given to parseBucketUpperBoundMs by CodecSpec
MaxLabelLen == 3
\* longest device list of an access file explored by StartSpec
MaxDevices == 2
\* number of collection cycles explored by Spec, over all instances
MaxCycles == 2
\* goroutines of one instance the model has room for
MaxSlots == 2

Instances == {"plc1", "plc2"}

(***************************************************************************)
(* Go maps: a finite function; reading a missing key yields the zero value.*)
(***************************************************************************)
EmptyMap == [k \in {} |-> 0]

MapGet(m, k) == IF k \in DOMAIN m THEN m[k] ELSE 0

MapPut(m, k, v) == [x \in (DOMAIN m) \cup {k} |-> IF x = k THEN v ELSE m[x]]

Max(a, b) == IF a >= b THEN a ELSE b

(***************************************************************************)
(* Decoded JSON values (interface{}): every value carries its dynamic      *)
(* type; v is the number of a numeric value, s the text of a string, m the *)
(* members of a map.                                                       *)
(***************************************************************************)
JFloat(x) == [kind |-> "float64", v |-> x, s |-> "", m |-> EmptyMap]

JInt(x) == [kind |-> "int", v |-> x, s |-> "", m |-> EmptyMap]

JInt64(x) == [kind |-> "int64", v |-> x, s |-> "", m |-> EmptyMap]

\* a json.Number whose text is a number
JNumber(x) == [kind |-> "json.Number", v |-> x, s |-> "", m |-> EmptyMap]

\* a json.Number whose text does not convert (Float64 returns an error)
JBadNumber == [kind |-> "json.Number.invalid", v |-> 0, s |-> "", m |-> EmptyMap]

JStr(text) == [kind |-> "string", v |-> 0, s |-> text, m |-> EmptyMap]

JString == JStr("text")

JMap(members) == [kind |-> "map", v |-> 0, s |-> "", m |-> members]

(***************************************************************************)
(* Metric descriptors.  A JSONName is the path text, given as its tokens:  *)
(* the separator "/" and the names between separators.                     *)
(***************************************************************************)
counter == 0

gauge == 1

crbMetricDescs ==
    << [JSONName |-> <<"writeSuccesses">>,
        PromName |-> "crb_successful_cycle_count", Type |-> counter],
       [JSONName |-> <<"writeAttempts">>,
        PromName |-> "crb_total_cycle_count", Type |-> counter],
       [JSONName |-> <<"cycleDelay", "/", "totalNs">>,
        PromName |-> "crb_sum_cycle_extension_duration", Type |-> counter],
       [JSONName |-> <<"cycleDelay", "/", "minNs">>,
        PromName |-> "crb_min_cycle_extension_duration", Type |-> gauge],
       [JSONName |-> <<"cycleDelay", "/", "maxNs">>,
        PromName |-> "crb_max_cycle_extension_duration", Type |-> gauge],
       [JSONName |-> <<"writeDuration", "/", "minNs">>,
        PromName |-> "crb_min_write_duration", Type |-> gauge],
       [JSONName |-> <<"writeDuration", "/", "maxNs">>,
        PromName |-> "crb_max_write_duration", Type |-> gauge],
       [JSONName |-> <<"writeDuration", "/", "totalNs">>,
        PromName |-> "crb_sum_write_duration", Type |-> counter] >>

DescIdx == 1..Len(crbMetricDescs)

CounterDescs == {d \in DescIdx : crbMetricDescs[d].Type = counter}

GaugeDescs == {d \in DescIdx : crbMetricDescs[d].Type = gauge}

\* initCRBMetrics: one empty vector per descriptor of the kind
initCRBMetrics(type) ==
    LET names == {crbMetricDescs[d].PromName :
                     d \in {x \in DescIdx : crbMetricDescs[x].Type = type}}
    IN  [n \in names |-> EmptyMap]

(***************************************************************************)
(* strings.Split(path, "/"): the names between separators; an empty text   *)
(* yields one empty name.                                                  *)
(***************************************************************************)
RECURSIVE Split(_)
Split(path) ==
    IF path = <<>> THEN <<"">>
    ELSE IF Head(path) = "/" THEN <<"">> \o Split(Tail(path))
    ELSE IF Len(path) = 1 THEN <<Head(path)>>
    ELSE <<Head(path)>> \o Split(Tail(Tail(path)))

Absent == [v |-> 0, ok |-> FALSE]

Found(x) == [v |-> x, ok |-> TRUE]

\* the type switch on the last path element
ToFloat64(val) ==
    IF val.kind \in {"float64", "int", "int64", "json.Number"}
    THEN Found(val.v)
    ELSE Absent

RECURSIVE WalkParts(_, _, _)
WalkParts(current, parts, i) ==
    IF i > Len(parts) THEN Absent
    ELSE IF current.kind # "map" THEN Absent
    ELSE IF parts[i] \notin DOMAIN current.m THEN Absent
    ELSE IF i = Len(parts) THEN ToFloat64(current.m[parts[i]])
    ELSE WalkParts(current.m[parts[i]], parts, i + 1)

\* data is a map[string]interface{}, path the JSONName
getNestedValue(data, path) == WalkParts(JMap(data), Split(path), 1)

(***************************************************************************)
(* updateCRBMetrics.  The registry state it works on is passed as a record *)
(* [prev, ctr, gauge] of the three package-level maps.                     *)
(***************************************************************************)
Registry == [prev |-> previousCounterValues, ctr |-> crbMetrics, gauge |-> crbGauges]

\* variant: the first observation of a key only stores the baseline
ApplyCounter_BaselineFirst(st, name, inst, v) ==
    LET inner == IF name \in DOMAIN st.prev THEN st.prev[name] ELSE EmptyMap
        delta == IF inst \in DOMAIN inner THEN v - inner[inst] ELSE 0
        vec   == st.ctr[name]
    IN  [st EXCEPT
            !.ctr  = IF delta > 0
                     THEN [st.ctr EXCEPT ![name] = MapPut(vec, inst, MapGet(vec, inst) + delta)]
                     ELSE st.ctr,
            !.prev = MapPut(st.prev, name, MapPut(inner, inst, v))]

\* variant: every delta is added, whatever its sign
ApplyCounter_AddsEveryDelta(st, name, inst, v) ==
    LET inner == IF name \in DOMAIN st.prev THEN st.prev[name] ELSE EmptyMap
        delta == v - MapGet(inner, inst)
        vec   == st.ctr[name]
    IN  [st EXCEPT
            !.ctr  = [st.ctr EXCEPT ![name] = MapPut(vec, inst, MapGet(vec, inst) + delta)],
            !.prev = MapPut(st.prev, name, MapPut(inner, inst, v))]

\* variant: the raw value is stored only when it has been added
ApplyCounter_KeepsLastRaw(st, name, inst, v) ==
    LET inner == IF name \in DOMAIN st.prev THEN st.prev[name] ELSE EmptyMap
        delta == v - MapGet(inner, inst)
        vec   == st.ctr[name]
    IN  IF delta > 0
        THEN [st EXCEPT
                 !.ctr  = [st.ctr EXCEPT ![name] = MapPut(vec, inst, MapGet(vec, inst) + delta)],
                 !.prev = MapPut(st.prev, name, MapPut(inner, inst, v))]
        ELSE st

\* case counter: delta against the stored previous raw value (0 when the key
\* was never stored); only a positive delta is added; the raw value is stored.
ApplyCounter(st, name, inst, v) ==
    LET inner     == IF name \in DOMAIN st.prev THEN st.prev[name] ELSE EmptyMap
        prevValue == MapGet(inner, inst)
        delta     == v - prevValue
        vec       == st.ctr[name]
    IN  [st EXCEPT
            !.ctr  = IF delta > 0
                     THEN [st.ctr EXCEPT ![name] = MapPut(vec, inst, MapGet(vec, inst) + delta)]
                     ELSE st.ctr,
            !.prev = MapPut(st.prev, name, MapPut(inner, inst, v))]

\* variant: Set replaces the children of the vector by the one child
ApplyGauge_Replaces(st, name, inst, v) ==
    [st EXCEPT !.gauge = [st.gauge EXCEPT ![name] = MapPut(EmptyMap, inst, v)]]

\* variant: the value is added to the gauge
ApplyGauge_Adds(st, name, inst, v) ==
    [st EXCEPT !.gauge = [st.gauge EXCEPT
                              ![name] = MapPut(st.gauge[name], inst, MapGet(st.gauge[name], inst) + v)]]

\* case gauge: Set(v)
ApplyGauge(st, name, inst, v) ==
    [st EXCEPT !.gauge = [st.gauge EXCEPT ![name] = MapPut(st.gauge[name], inst, v)]]

\* one iteration of the loop over crbMetricDescs
ApplyDesc(st, performanceData, inst, d) ==
    LET desc == crbMetricDescs[d]
        r    == getNestedValue(performanceData, desc.JSONName)
    IN  IF ~r.ok THEN st
        ELSE IF desc.Type = counter THEN ApplyCounter(st, desc.PromName, inst, r.v)
        ELSE ApplyGauge(st, desc.PromName, inst, r.v)

RECURSIVE UpdateDescs(_, _, _, _)
UpdateDescs(st, performanceData, inst, d) ==
    IF d > Len(crbMetricDescs) THEN st
    ELSE UpdateDescs(ApplyDesc(st, performanceData, inst, d), performanceData, inst, d + 1)

\* data["performanceMetrics"].(map[string]interface{})
HasPerformanceMetrics(data) ==
    /\ "performanceMetrics" \in DOMAIN data
    /\ data["performanceMetrics"].kind = "map"

\* variant: a field that is not delivered fails the whole update
updateCRBMetrics_AllOrNothing(st, data, inst) ==
    IF ~HasPerformanceMetrics(data) THEN st
    ELSE IF \E d \in DescIdx :
                ~getNestedValue(data["performanceMetrics"].m, crbMetricDescs[d].JSONName).ok
         THEN st
         ELSE UpdateDescs(st, data["performanceMetrics"].m, inst, 1)

updateCRBMetrics(st, data, inst) ==
    IF ~HasPerformanceMetrics(data) THEN st
    ELSE UpdateDescs(st, data["performanceMetrics"].m, inst, 1)

(***************************************************************************)
(* Bucket labels are texts, given character by character.  A float64 that  *)
(* a label yields is held as <<whole part, thousandths>>; the labels of    *)
(* the model carry at most three fractional digits.                        *)
(***************************************************************************)
DigitChars == <<"0", "1", "2", "3", "4", "5", "6", "7", "8", "9">>

IsDigit(c) == \E i \in 1..Len(DigitChars) : DigitChars[i] = c

DigitVal(c) == (CHOOSE i \in 1..Len(DigitChars) : DigitChars[i] = c) - 1

\* first position at or after p that holds no digit
RECURSIVE DigitsEnd(_, _)
DigitsEnd(b, p) ==
    IF p <= Len(b) /\ IsDigit(b[p]) THEN DigitsEnd(b, p + 1) ELSE p

\* value of the digits b[from..to-1]
RECURSIVE WholeVal(_, _, _, _)
WholeVal(b, from, to, acc) ==
    IF from >= to THEN acc ELSE WholeVal(b, from + 1, to, acc * 10 + DigitVal(b[from]))

\* thousandths denoted by the fractional digits b[from..to-1] (0 when there
\* are none)
FracVal(b, from, to) ==
    (IF from < to THEN 100 * DigitVal(b[from]) ELSE 0)
        + (IF from + 1 < to THEN 10 * DigitVal(b[from + 1]) ELSE 0)
        + (IF from + 2 < to THEN DigitVal(b[from + 2]) ELSE 0)

\* (\.\d+)? after the whole part that ends before e1: where the number ends
NumberEnd(b, e1) ==
    IF e1 <= Len(b) /\ b[e1] = "." /\ DigitsEnd(b, e1 + 1) > e1 + 1
    THEN DigitsEnd(b, e1 + 1)
    ELSE e1

\* (\+)? after the number that ends before e2
PlusEnd(b, e2) == IF e2 <= Len(b) /\ b[e2] = "+" THEN e2 + 1 ELSE e2

\* ms$ at e3, after a whole part b[p..e1-1], a fraction up to e2 and a plus
MatchResult(b, p, e1, e2, e3) ==
    [ok   |-> e1 > p /\ e3 + 1 = Len(b) /\ b[e3] = "m" /\ b[e3 + 1] = "s",
     val  |-> <<WholeVal(b, p, e1, 0), FracVal(b, e1 + 1, e2)>>,
     plus |-> e3 > e2]

MatchNumber(b, p, e1, e2) == MatchResult(b, p, e1, e2, PlusEnd(b, e2))

MatchWhole(b, p, e1) == MatchNumber(b, p, e1, NumberEnd(b, e1))

\* the regular expression (\d+(\.\d+)?)(\+)?ms$ tried at position p
MatchAt(b, p) == MatchWhole(b, p, DigitsEnd(b, p))

NoMatch == [ok |-> FALSE, val |-> <<0, 0>>, plus |-> FALSE]

\* re.FindStringSubmatch: the leftmost position at which the expression matches
RECURSIVE FindFrom(_, _)
FindFrom(b, p) ==
    IF p > Len(b) THEN NoMatch
    ELSE IF MatchAt(b, p).ok THEN MatchAt(b, p)
    ELSE FindFrom(b, p + 1)

FindStringSubmatch(b) == FindFrom(b, 1)

\* the value returned for an open-ended label: 1e9
SentinelMs == 1000000000

\* variant: the "+" is not looked at
BoundOfMatch_PlusIgnored(matches) == IF matches.ok THEN matches.val ELSE <<0, 0>>

\* the branches on the submatches
BoundOfMatch(matches) ==
    IF matches.ok
    THEN IF matches.plus THEN <<SentinelMs, 0>> ELSE matches.val
    ELSE <<0, 0>>

parseBucketUpperBoundMs(bucket) == BoundOfMatch(FindStringSubmatch(bucket))

\* "0.0-1.0ms"
Label_00_10 == <<"0", ".", "0", "-", "1", ".", "0", "m", "s">>

\* "1.0+ms"
Label_10_plus == <<"1", ".", "0", "+", "m", "s">>

\* "0.5-1.0ms": same upper bound as "0.0-1.0ms"
Label_05_10 == <<"0", ".", "5", "-", "1", ".", "0", "m", "s">>

\* "0-1ms", "1-5ms", "5+ms"
Label_0_1 == <<"0", "-", "1", "m", "s">>

Label_1_5 == <<"1", "-", "5", "m", "s">>

Label_5_plus == <<"5", "+", "m", "s">>

\* "low", "high": texts the expression does not match
Label_low == <<"l", "o", "w">>

Label_high == <<"h", "i", "g", "h">>

Labels ==
    {Label_00_10, Label_10_plus, Label_05_10, Label_0_1, Label_1_5, Label_5_plus,
     Label_low, Label_high}

\* the upper bound of every label of the model, parsed once
UpperBound == [k \in Labels |-> parseBucketUpperBoundMs(k)]

FloatLess(a, b) == a[1] < b[1] \/ (a[1] = b[1] /\ a[2] < b[2])

\* strconv.FormatFloat(x, 'f', -1, 64): the shortest decimal text of x, one
\* text per value: its whole part and its fractional digits
FormatFloat(x) == [whole |-> x[1], frac |-> x[2]]

\* vplc_instance + "|" + le
\* variant: the key leaves the instance out
BucketKey_NoInstance(inst, le) == <<"", "|", le>>

BucketKey(inst, le) == <<inst, "|", le>>

(***************************************************************************)
(* updateHistograms.  One loop per histogram kind; ks = [prev, vec] are    *)
(* the kind's previous-value map and counter vector.                       *)
(***************************************************************************)
\* sort.Slice by upper bound: any order of the keys in which no key comes
\* before one of smaller upper bound (keys of equal bound in either order)
SortedOrders(m) ==
    LET keys == DOMAIN m
        n    == Cardinality(keys)
    IN  {s \in [1..n -> keys] :
            /\ \A i, j \in 1..n : i # j => s[i] # s[j]
            /\ \A i, j \in 1..n : i < j => ~FloatLess(UpperBound[s[j]], UpperBound[s[i]])}

\* variant: every delta is added, whatever its sign
ApplyDelta_AddsEveryDelta(ks, key, child, entry) ==
    [prev |-> MapPut(ks.prev, key, entry.cumulative),
     vec  |-> MapPut(ks.vec, child,
                     MapGet(ks.vec, child) + (entry.cumulative - MapGet(ks.prev, key))),
     fed  |-> Append(ks.fed, entry)]

\* the delta rule of one bucket: key is the key of the previous-value map,
\* child the label values of the counter (created by WithLabelValues)
ApplyDelta(ks, key, child, entry) ==
    [prev |-> MapPut(ks.prev, key, entry.cumulative),
     vec  |-> IF entry.cumulative - MapGet(ks.prev, key) > 0
              THEN MapPut(ks.vec, child,
                          MapGet(ks.vec, child) + (entry.cumulative - MapGet(ks.prev, key)))
              ELSE MapPut(ks.vec, child, MapGet(ks.vec, child)),
     fed  |-> Append(ks.fed, entry)]

ApplyLe(ks, inst, le, entry) == ApplyDelta(ks, BucketKey(inst, le), <<inst, le>>, entry)

\* one iteration of a bucket loop: k is the label, cumulative the running sum
\* that already includes the count of k
ApplyBucket(ks, inst, k, cumulative) ==
    ApplyLe(ks, inst, FormatFloat(UpperBound[k]),
            [label |-> k, le |-> FormatFloat(UpperBound[k]), cumulative |-> cumulative])

RECURSIVE BucketLoop(_, _, _, _, _, _)
BucketLoop(ks, inst, m, order, i, cumulative) ==
    IF i > Len(order) THEN ks
    ELSE BucketLoop(ApplyBucket(ks, inst, order[i], cumulative + m[order[i]]),
                    inst, m, order, i + 1, cumulative + m[order[i]])

\* hs = [prevWrite, prevCycle, write, cycle]; orderW and orderC are the
\* orders the two sorts produced
updateHistograms(hs, hist, inst, orderW, orderC) ==
    LET w == BucketLoop([prev |-> hs.prevWrite, vec |-> hs.write, fed |-> <<>>],
                        inst, hist.WriteDurationHistogram, orderW, 1, 0)
        c == BucketLoop([prev |-> hs.prevCycle, vec |-> hs.cycle, fed |-> <<>>],
                        inst, hist.CycleExtensionDurationHistogram, orderC, 1, 0)
    IN  [prevWrite |-> w.prev, write |-> w.vec, prevCycle |-> c.prev, cycle |-> c.vec,
         fed |-> [inst |-> inst, write |-> w.fed, cycle |-> c.fed]]

Buckets ==
    [prevWrite |-> prevWriteBuckets, prevCycle |-> prevCycleBuckets,
     write |-> writeDurationBuckets, cycle |-> cycleExtensionBuckets]

InitBuckets ==
    /\ prevWriteBuckets = EmptyMap
    /\ prevCycleBuckets = EmptyMap
    /\ writeDurationBuckets = EmptyMap
    /\ cycleExtensionBuckets = EmptyMap
    /\ fed = [inst |-> "", write |-> <<>>, cycle |-> <<>>]

(***************************************************************************)
(* Scalar documents a device may answer with (decoded by json.Unmarshal    *)
(* into map[string]interface{}: every number is a float64).                *)
(***************************************************************************)
PerfFull(a) ==
    [writeSuccesses |-> JFloat(a),
     writeAttempts  |-> JFloat(MaxRaw - a),
     cycleDelay     |-> JMap([totalNs |-> JFloat(a), minNs |-> JFloat(a),
                              maxNs |-> JFloat(MaxRaw - a)]),
     writeDuration  |-> JMap([totalNs |-> JFloat(MaxRaw - a), minNs |-> JFloat(MaxRaw - a),
                              maxNs |-> JFloat(a)])]

\* writeAttempts missing
PerfNoAttempts(a) ==
    [writeSuccesses |-> JFloat(a),
     cycleDelay     |-> JMap([totalNs |-> JFloat(a), minNs |-> JFloat(a),
                              maxNs |-> JFloat(MaxRaw - a)]),
     writeDuration  |-> JMap([totalNs |-> JFloat(MaxRaw - a), minNs |-> JFloat(MaxRaw - a),
                              maxNs |-> JFloat(a)])]

\* writeAttempts a string, cycleDelay a number instead of an object
PerfOddTypes(a) ==
    [writeSuccesses |-> JFloat(a),
     writeAttempts  |-> JString,
     cycleDelay     |-> JFloat(a),
     writeDuration  |-> JMap([totalNs |-> JFloat(MaxRaw - a), minNs |-> JString])]

StatsDoc(perf) == [performanceMetrics |-> JMap(perf), timestampNs |-> JFloat(0)]

DocNoPerf == [timestampNs |-> JFloat(0)]

DocPerfNotMap == [performanceMetrics |-> JString, timestampNs |-> JFloat(0)]

RawValues == 0..MaxRaw

ScalarDocs ==
    {StatsDoc(PerfFull(a)) : a \in RawValues}
        \cup {StatsDoc(PerfNoAttempts(MaxRaw)), StatsDoc(PerfOddTypes(1)),
              DocNoPerf, DocPerfNotMap}

InitRegistry ==
    /\ previousCounterValues = EmptyMap
    /\ crbMetrics = initCRBMetrics(counter)
    /\ crbGauges = initCRBMetrics(gauge)

(***************************************************************************)
(* Histogram documents (decoded into the Histogram struct; a member the    *)
(* document lacks is a nil map).                                           *)
(***************************************************************************)
\* per-bucket counts of the generated two-bucket responses
Counts == {0, 2}

TwoBuckets(a, b) == (Label_00_10 :> a) @@ (Label_10_plus :> b)

ThreeBuckets == (Label_0_1 :> 3) @@ (Label_1_5 :> 2) @@ (Label_5_plus :> 1)

SameBound == (Label_00_10 :> 2) @@ (Label_05_10 :> 1)

Unrecognized == (Label_low :> 1) @@ (Label_high :> 2)

Histogram(w, c) ==
    [Timestamp |-> 0, CycleExtensionDurationHistogram |-> c, WriteDurationHistogram |-> w]

\* two-bucket responses (the cycle-extension member holds the counts of the
\* write-duration member exchanged), the special shapes, and a document
\* that has neither member
HistResponses ==
    {Histogram(TwoBuckets(a, b), TwoBuckets(b, a)) : a, b \in Counts}
        \cup {Histogram(ThreeBuckets, SameBound), Histogram(SameBound, Unrecognized),
              Histogram(Unrecognized, ThreeBuckets), Histogram(EmptyMap, EmptyMap)}

(***************************************************************************)
(* What a device may answer.  An HTTP exchange ends in a transport error,  *)
(* or in a status and a body; a body is text that decodes as JSON or not.  *)
(***************************************************************************)
Garbage == [json |-> FALSE, val |-> EmptyMap]

JsonBody(val) == [json |-> TRUE, val |-> val]

HttpError == [err |-> TRUE, status |-> 0, body |-> Garbage]

Http(status, body) == [err |-> FALSE, status |-> status, body |-> body]

\* no exchange (the third member of the events that carry none)
NoResp == [err |-> FALSE, status |-> 0, body |-> Garbage]

StatusOK == 200

\* the statuses other than 200 that the devices of the model answer with
NonOKStatuses == {401}

\* the access tokens a device hands out, one after the other
TokenNames == <<"tokA", "tokB", "tokC", "tokD", "tokE", "tokF">>

\* what the n-th accepted login of a device may return as accessToken: a
\* fresh token, or the empty text
LoginTokens(n) == {"", TokenNames[((n - 1) % Len(TokenNames)) + 1]}

\* transport error, non-200 status, unparsable body, no accessToken
LoginFailures ==
    {HttpError, Http(StatusOK, Garbage), Http(StatusOK, JsonBody([user |-> JString])),
     Http(StatusOK, JsonBody([accessToken |-> JFloat(1)]))}
        \cup {Http(st, Garbage) : st \in NonOKStatuses}

LoginGrants(n) == {Http(StatusOK, JsonBody([accessToken |-> JStr(t)])) : t \in LoginTokens(n)}

LoginResponses(n) == LoginFailures \cup LoginGrants(n)

\* histogram document of the collector runs
CycleHists == {Histogram(TwoBuckets(2, 0), TwoBuckets(0, 2))}

FetchFailures == {HttpError} \cup {Http(st, Garbage) : st \in NonOKStatuses}

HistHttpResponses ==
    FetchFailures \cup {Http(StatusOK, Garbage)}
        \cup {Http(StatusOK, JsonBody(h)) : h \in CycleHists}

\* scalar documents of the collector runs
CycleDocs == {StatsDoc(PerfFull(0)), StatsDoc(PerfFull(MaxRaw)), DocNoPerf}

StatsHttpResponses ==
    FetchFailures \cup {Http(StatusOK, Garbage)}
        \cup {Http(StatusOK, JsonBody(d)) : d \in CycleDocs}

(***************************************************************************)
(* authenticate and sendApiRequest, on the answer of the device.           *)
(***************************************************************************)
AuthError == [token |-> "", err |-> TRUE]

\* variant: the type assertion's ok is not looked at
AccessToken_Unchecked(result) ==
    IF "accessToken" \in DOMAIN result /\ result["accessToken"].kind = "string"
    THEN [token |-> result["accessToken"].s, err |-> FALSE]
    ELSE [token |-> "", err |-> FALSE]

\* token, ok := result["accessToken"].(string)
AccessToken(result) ==
    IF "accessToken" \in DOMAIN result /\ result["accessToken"].kind = "string"
    THEN [token |-> result["accessToken"].s, err |-> FALSE]
    ELSE AuthError

\* authenticate: the token, or an error
authenticate(resp) ==
    IF resp.err THEN AuthError
    ELSE IF resp.status # StatusOK THEN AuthError
    ELSE IF ~resp.body.json THEN AuthError
    ELSE AccessToken(resp.body.val)

\* variant: the status of the answer is not looked at
sendApiRequest_IgnoresStatus(resp) ==
    IF resp.err THEN [body |-> Garbage, err |-> TRUE]
    ELSE [body |-> resp.body, err |-> FALSE]

\* sendApiRequest: the body, or an error
sendApiRequest(resp) ==
    IF resp.err THEN [body |-> Garbage, err |-> TRUE]
    ELSE IF resp.status # StatusOK THEN [body |-> Garbage, err |-> TRUE]
    ELSE [body |-> resp.body, err |-> FALSE]

\* variant: a body that does not parse is handled like a failed request
FetchOutcome_ParseErrorDrops(resp) ==
    IF sendApiRequest(resp).err THEN "drop"
    ELSE IF ~sendApiRequest(resp).body.json THEN "drop"
    ELSE "update"

\* what the cycle does with the answer to a data request: "drop" the session
\* and return when the request failed, "skip" the update when json.Unmarshal
\* fails, "update" otherwise
FetchOutcome(resp) ==
    IF sendApiRequest(resp).err THEN "drop"
    ELSE IF ~sendApiRequest(resp).body.json THEN "skip"
    ELSE "update"

(***************************************************************************)
(* The process: readAccessFile and main up to ListenAndServe.              *)
(***************************************************************************)
\* values of the environment variable VPLC_ACCESS_FILE
Paths == {"", "/cfg/access.json"}

\* an element of the "vplcs" array: an object with or without a name, or a
\* value that is not an object
DeviceObject(name) == [kind |-> "object", name |-> name]

NotAnObject == [kind |-> "number", name |-> ""]

DeviceElems == {DeviceObject(n) : n \in Instances \cup {""}} \cup {NotAnObject}

DeviceArrays == UNION {[1..n -> DeviceElems] : n \in 0..MaxDevices}

\* the value under "vplcs" of the top-level object
VplcsAbsent == [kind |-> "absent", elems |-> <<>>]

VplcsNull == [kind |-> "null", elems |-> <<>>]

VplcsString == [kind |-> "string", elems |-> <<>>]

VplcsArray(elems) == [kind |-> "array", elems |-> elems]

\* the bytes of the access file, by what a JSON decoder sees in them
NotJson == [kind |-> "garbage", vplcs |-> VplcsAbsent]

JsonNull == [kind |-> "null", vplcs |-> VplcsAbsent]

JsonArray == [kind |-> "array", vplcs |-> VplcsAbsent]

JsonObject(vplcs) == [kind |-> "object", vplcs |-> vplcs]

AccessData ==
    {NotJson, JsonNull, JsonArray}
        \cup {JsonObject(v) : v \in {VplcsAbsent, VplcsNull, VplcsString}}
        \cup {JsonObject(VplcsArray(a)) : a \in DeviceArrays}

\* what is at the path: nothing (Open fails), something that cannot be read
\* (ReadAll fails), or a file with its bytes
NoData == [kind |-> "none", vplcs |-> VplcsAbsent]

MissingFile == [state |-> "missing", data |-> NoData]

UnreadableFile == [state |-> "unreadable", data |-> NoData]

RegularFile(data) == [state |-> "regular", data |-> data]

Files == {MissingFile, UnreadableFile} \cup {RegularFile(d) : d \in AccessData}

VplcAccess(name) == [Name |-> name]

\* json.Unmarshal(data, &accessList): an error for bytes that are not JSON
\* and for a value of the wrong type; null and an absent "vplcs" leave
\* Instances nil; an absent "name" leaves Name empty
UnmarshalAccessList(data) ==
    CASE data.kind = "garbage" -> [err |-> TRUE, Instances |-> <<>>]
      [] data.kind = "array" -> [err |-> TRUE, Instances |-> <<>>]
      [] data.kind = "null" -> [err |-> FALSE, Instances |-> <<>>]
      [] OTHER ->
            CASE data.vplcs.kind = "string" -> [err |-> TRUE, Instances |-> <<>>]
              [] data.vplcs.kind \in {"absent", "null"} -> [err |-> FALSE, Instances |-> <<>>]
              [] OTHER ->
                    IF \E k \in DOMAIN data.vplcs.elems : data.vplcs.elems[k].kind # "object"
                    THEN [err |-> TRUE, Instances |-> <<>>]
                    ELSE [err |-> FALSE,
                          Instances |-> [k \in DOMAIN data.vplcs.elems |->
                                             VplcAccess(data.vplcs.elems[k].name)]]

\* readAccessFile: log.Fatalf on an empty path, on an Open or ReadAll error
\* and on an Unmarshal error; otherwise accessList.Instances as decoded
readAccessFile(path, file) ==
    CASE path = "" -> [fatal |-> TRUE, list |-> <<>>]
      [] file.state = "missing" -> [fatal |-> TRUE, list |-> <<>>]
      [] file.state = "unreadable" -> [fatal |-> TRUE, list |-> <<>>]
      [] UnmarshalAccessList(file.data).err -> [fatal |-> TRUE, list |-> <<>>]
      [] OTHER -> [fatal |-> FALSE, list |-> UnmarshalAccessList(file.data).Instances]

\* the process before main runs
Starting(path, file) ==
    [phase |-> "readAccessFile", path |-> path, file |-> file, vplcList |-> <<>>,
     collectors |-> <<>>, endpoint |-> FALSE]

\* the process once main has started a collector for A and for B and serves
\* /metrics
Serving ==
    [phase |-> "serving", path |-> "/cfg/access.json",
     file |-> RegularFile(JsonObject(VplcsArray(<<DeviceObject("A"), DeviceObject("B")>>))),
     vplcList |-> <<VplcAccess("A"), VplcAccess("B")>>,
     collectors |-> <<"A", "B">>, endpoint |-> TRUE]

\* os.Exit(1) of log.Fatal: every goroutine and the listener end with it
Exited(p) == [p EXCEPT !.phase = "exited", !.endpoint = FALSE]

\* vplcList := readAccessFile()
ReadAccessFile ==
    /\ process.phase = "readAccessFile"
    /\ process' = IF readAccessFile(process.path, process.file).fatal
                  THEN Exited(process)
                  ELSE [process EXCEPT !.phase = "startCollectors",
                                       !.vplcList = readAccessFile(process.path, process.file).list]
    /\ UNCHANGED <<scalarVars, histVars, sessionVars, running, gor, metricsMu, cycles, logins,
                   lastEvent, history, fed, call>>

\* one turn of for _, vplc := range vplcList { go func(vplc VplcAccess) ... }
StartCollector ==
    /\ process.phase = "startCollectors"
    /\ Len(process.collectors) < Len(process.vplcList)
    /\ process' = [process EXCEPT
                       !.collectors = Append(@, process.vplcList[Len(process.collectors) + 1].Name)]
    /\ UNCHANGED <<scalarVars, histVars, sessionVars, running, gor, metricsMu, cycles, logins,
                   lastEvent, history, fed, call>>

\* http.Handle("/metrics", ...) and http.ListenAndServe(":2112", nil): the
\* listener is up, or ListenAndServe returns an error and log.Fatal exits
Serve(bound) ==
    /\ process.phase = "startCollectors"
    /\ Len(process.collectors) = Len(process.vplcList)
    /\ process' = IF bound
                  THEN [process EXCEPT !.phase = "serving", !.endpoint = TRUE]
                  ELSE Exited(process)
    /\ UNCHANGED <<scalarVars, histVars, sessionVars, running, gor, metricsMu, cycles, logins,
                   lastEvent, history, fed, call>>

(***************************************************************************)
(* The collector: main.  Per instance a ticker loop starts one goroutine   *)
(* per cycle; gor[i][s] is the goroutine in slot s of instance i.  Its pc  *)
(* is the call it is in: "login", "hist", "stats" (the request is out),    *)
(* "histLock", "statsLock" (waiting for metricsMu), "histUpdate",          *)
(* "statsUpdate" (holding it), "recover", "exit" (the deferred calls).     *)
(***************************************************************************)
\* no helper has been called
NoCall == [fn |-> "", arg |-> <<>>, ret |-> <<>>]

Slots == 1..MaxSlots

NoHolder == <<"", 0>>

NoBody == EmptyMap

Idle == [pc |-> "none", sent |-> "", body |-> NoBody]

InitCollector ==
    /\ token = [i \in Instances |-> ""]
    /\ authenticated = [i \in Instances |-> FALSE]
    /\ running = [i \in Instances |-> 0]
    /\ gor = [i \in Instances |-> [s \in Slots |-> Idle]]
    /\ metricsMu = NoHolder
    /\ cycles = 0
    /\ logins = [i \in Instances |-> 0]
    /\ lastEvent = <<"start", "", NoResp>>
    /\ process = Serving
    /\ call = NoCall

Active(i) == {s \in Slots : gor[i][s].pc # "none"}

FreeSlot(i) == CHOOSE s \in Slots \ Active(i) : \A t \in Slots \ Active(i) : s <= t

SetGor(i, s, pc, sent, body) ==
    gor' = [gor EXCEPT ![i][s] = [pc |-> pc, sent |-> sent, body |-> body]]

\* variant: the swap is not looked at
CasRunning_Always(i) == TRUE

\* atomic.CompareAndSwapInt32(&running, 0, 1) succeeds
CasRunning(i) == running[i] = 0

\* variant: the request carries no token
Cookie_Empty(i) == ""

\* req.Header.Set("Cookie", "authToken="+token): the token the request of
\* instance i carries
Cookie(i) == token[i]

\* if !authenticated || token == ""
NeedsLogin(i) == ~authenticated[i] \/ token[i] = ""

\* a tick of instance i: start a cycle goroutine unless one is running; the
\* goroutine's first step sends the login request or the histogram request
Tick(i) ==
    /\ process.phase = "serving"
    /\ lastEvent' = <<"tick", i, NoResp>>
    /\ IF CasRunning(i)
       THEN /\ cycles < MaxCycles
            /\ Slots \ Active(i) # {}
            /\ running' = [running EXCEPT ![i] = 1]
            /\ cycles' = cycles + 1
            /\ IF NeedsLogin(i)
               THEN SetGor(i, FreeSlot(i), "login", "", NoBody)
               ELSE SetGor(i, FreeSlot(i), "hist", Cookie(i), NoBody)
       ELSE UNCHANGED <<running, gor, cycles>>
    /\ UNCHANGED <<scalarVars, histVars, sessionVars, metricsMu, logins, history, fed, process, call>>

\* the login answer arrives
LoginDone(i, s, resp) ==
    /\ process.phase = "serving"
    /\ gor[i][s].pc = "login"
    /\ lastEvent' = <<"loginDone", i, resp>>
    /\ logins' = IF resp \in LoginFailures THEN logins ELSE [logins EXCEPT ![i] = @ + 1]
    /\ token' = [token EXCEPT ![i] = authenticate(resp).token]
    /\ IF authenticate(resp).err
       THEN /\ authenticated' = [authenticated EXCEPT ![i] = FALSE]
            /\ SetGor(i, s, "exit", "", NoBody)
       ELSE /\ authenticated' = [authenticated EXCEPT ![i] = TRUE]
            /\ SetGor(i, s, "hist", authenticate(resp).token, NoBody)
    /\ UNCHANGED <<scalarVars, histVars, running, metricsMu, cycles, history, fed, process, call>>

\* authenticated = false; token = ""
DropSession(i) ==
    /\ authenticated' = [authenticated EXCEPT ![i] = FALSE]
    /\ token' = [token EXCEPT ![i] = ""]

\* the answer to the histogram request arrives
HistDone(i, s, resp) ==
    /\ process.phase = "serving"
    /\ gor[i][s].pc = "hist"
    /\ lastEvent' = <<"histDone", i, resp>>
    /\ CASE FetchOutcome(resp) = "drop" ->
                /\ DropSession(i)
                /\ SetGor(i, s, "exit", "", NoBody)
         [] FetchOutcome(resp) = "skip" ->
                /\ SetGor(i, s, "stats", Cookie(i), NoBody)
                /\ UNCHANGED sessionVars
         [] OTHER ->
                /\ SetGor(i, s, "histLock", "", resp.body.val)
                /\ UNCHANGED sessionVars
    /\ UNCHANGED <<scalarVars, histVars, running, metricsMu, cycles, logins, history, fed, process, call>>

\* variant: Lock does not wait for the holder
MutexFree_Always == TRUE

\* metricsMu.Lock() returns only when no goroutine holds the mutex
MutexFree == metricsMu = NoHolder

\* metricsMu.Lock() in updateHistograms and in updateCRBMetrics
Lock(i, s) ==
    /\ process.phase = "serving"
    /\ gor[i][s].pc \in {"histLock", "statsLock"}
    /\ MutexFree
    /\ metricsMu' = <<i, s>>
    /\ SetGor(i, s, IF gor[i][s].pc = "histLock" THEN "histUpdate" ELSE "statsUpdate",
              "", gor[i][s].body)
    /\ lastEvent' = <<"lock", i, NoResp>>
    /\ UNCHANGED <<scalarVars, histVars, sessionVars, running, cycles, logins, history, fed, process, call>>

\* variant: the update returns with the mutex held
UnlockOnReturn_Missing(i, s) == UNCHANGED metricsMu

\* defer metricsMu.Unlock(): runs when the update returns
UnlockOnReturn(i, s) == metricsMu' = NoHolder

\* the body of updateHistograms and its deferred Unlock; the goroutine then
\* sends the request for the scalar document
HistApply(i, s) ==
    /\ process.phase = "serving"
    /\ gor[i][s].pc = "histUpdate"
    /\ metricsMu = <<i, s>>
    /\ \E orderW \in SortedOrders(gor[i][s].body.WriteDurationHistogram),
          orderC \in SortedOrders(gor[i][s].body.CycleExtensionDurationHistogram) :
           LET hs == updateHistograms(Buckets, gor[i][s].body, i, orderW, orderC)
           IN  /\ prevWriteBuckets' = hs.prevWrite
               /\ prevCycleBuckets' = hs.prevCycle
               /\ writeDurationBuckets' = hs.write
               /\ cycleExtensionBuckets' = hs.cycle
               /\ fed' = hs.fed
    /\ UnlockOnReturn(i, s)
    /\ SetGor(i, s, "stats", Cookie(i), NoBody)
    /\ lastEvent' = <<"histApply", i, NoResp>>
    /\ UNCHANGED <<scalarVars, sessionVars, running, cycles, logins, history, process, call>>

\* the answer to the request for the scalar document arrives; a document
\* without performanceMetrics makes updateCRBMetrics return before it locks
StatsDone(i, s, resp) ==
    /\ process.phase = "serving"
    /\ gor[i][s].pc = "stats"
    /\ lastEvent' = <<"statsDone", i, resp>>
    /\ CASE FetchOutcome(resp) = "drop" ->
                /\ DropSession(i)
                /\ SetGor(i, s, "exit", "", NoBody)
         [] FetchOutcome(resp) = "skip" ->
                /\ SetGor(i, s, "exit", "", NoBody)
                /\ UNCHANGED sessionVars
         [] OTHER ->
                /\ IF HasPerformanceMetrics(resp.body.val)
                   THEN SetGor(i, s, "statsLock", "", resp.body.val)
                   ELSE SetGor(i, s, "exit", "", NoBody)
                /\ UNCHANGED sessionVars
    /\ UNCHANGED <<scalarVars, histVars, running, metricsMu, cycles, logins, history, fed, process, call>>

\* the loop of updateCRBMetrics and its deferred Unlock; the cycle returns
StatsApply(i, s) ==
    /\ process.phase = "serving"
    /\ gor[i][s].pc = "statsUpdate"
    /\ metricsMu = <<i, s>>
    /\ LET st == updateCRBMetrics(Registry, gor[i][s].body, i)
       IN  /\ previousCounterValues' = st.prev
           /\ crbMetrics' = st.ctr
           /\ crbGauges' = st.gauge
    /\ UnlockOnReturn(i, s)
    /\ SetGor(i, s, "exit", "", NoBody)
    /\ lastEvent' = <<"statsApply", i, NoResp>>
    /\ UNCHANGED <<histVars, sessionVars, running, cycles, logins, history, fed, process, call>>

\* variant: Unlock is not deferred, a panic passes it by
DeferredUnlock_Missing(i, s) == UNCHANGED metricsMu

\* defer metricsMu.Unlock(): runs when the goroutine panics inside an update
DeferredUnlock(i, s) ==
    metricsMu' = IF metricsMu = <<i, s>> THEN NoHolder ELSE metricsMu

\* a panic in the cycle body (in authenticate, in sendApiRequest, in an
\* update): the deferred Unlock of an update runs, then the deferred recover
\* function is entered
Panic(i, s) ==
    /\ process.phase = "serving"
    /\ gor[i][s].pc \in {"login", "hist", "stats", "histUpdate", "statsUpdate"}
    /\ DeferredUnlock(i, s)
    /\ SetGor(i, s, "recover", "", NoBody)
    /\ lastEvent' = <<"panic", i, NoResp>>
    /\ UNCHANGED <<scalarVars, histVars, sessionVars, running, cycles, logins, history, fed, process, call>>

\* variant: the deferred function does not call recover, the panic goes on
\* and ends the process
RecoverCall_Missing == process' = Exited(process)

\* if r := recover(); r != nil: the panic stops here
RecoverCall == UNCHANGED process

\* the deferred function that recovered a panic
Recover(i, s) ==
    /\ process.phase = "serving"
    /\ gor[i][s].pc = "recover"
    /\ RecoverCall
    /\ DropSession(i)
    /\ SetGor(i, s, "exit", "", NoBody)
    /\ lastEvent' = <<"recover", i, NoResp>>
    /\ UNCHANGED <<scalarVars, histVars, running, metricsMu, cycles, logins, history, fed, call>>

\* variant: the store is not deferred, the flag stays set
StoreRunning_Missing(i) == UNCHANGED running

\* atomic.StoreInt32(&running, 0)
StoreRunning(i) == running' = [running EXCEPT ![i] = 0]

\* defer atomic.StoreInt32(&running, 0); the goroutine ends
Exit(i, s) ==
    /\ process.phase = "serving"
    /\ gor[i][s].pc = "exit"
    /\ StoreRunning(i)
    /\ SetGor(i, s, "none", "", NoBody)
    /\ lastEvent' = <<"exit", i, NoResp>>
    /\ UNCHANGED <<scalarVars, histVars, sessionVars, metricsMu, cycles, logins, history, fed, process, call>>

Init ==
    /\ InitRegistry
    /\ InitBuckets
    /\ InitCollector
    /\ history = <<>>

Next ==
    \/ \E i \in Instances : Tick(i)
    \/ \E i \in Instances, s \in Slots :
          \E resp \in LoginResponses(logins[i] + 1) : LoginDone(i, s, resp)
    \/ \E i \in Instances, s \in Slots, resp \in HistHttpResponses : HistDone(i, s, resp)
    \/ \E i \in Instances, s \in Slots : Lock(i, s)
    \/ \E i \in Instances, s \in Slots : HistApply(i, s)
    \/ \E i \in Instances, s \in Slots, resp \in StatsHttpResponses : StatsDone(i, s, resp)
    \/ \E i \in Instances, s \in Slots : StatsApply(i, s)
    \/ \E i \in Instances, s \in Slots : Panic(i, s)
    \/ \E i \in Instances, s \in Slots : Recover(i, s)
    \/ \E i \in Instances, s \in Slots : Exit(i, s)

Spec == Init /\ [][Next]_vars

\* the deferred calls of the goroutine of instance i
DeferredCalls(i) == \E s \in Slots : Recover(i, s) \/ Exit(i, s)

\* no goroutine of instance i is inside an update
OutsideUpdate(i) == \A s \in Slots : gor[i][s].pc \notin {"histUpdate", "statsUpdate"}

\* what the Go scheduler and the ticker guarantee: the ticker fires, a
\* goroutine runs its deferred calls, a goroutine waiting for the mutex
\* gets it, a goroutine inside an update comes out of it (by returning or
\* by a panic).  Nothing makes a device answer.
Fairness ==
    \A i \in Instances :
        /\ WF_vars(Tick(i))
        /\ WF_vars(DeferredCalls(i))
        /\ SF_vars(\E s \in Slots : Lock(i, s))
        /\ []<>OutsideUpdate(i)

LiveSpec == Spec /\ Fairness

(***************************************************************************)
(* StartSpec: main from readAccessFile to ListenAndServe, for any          *)
(* environment and any access file.                                        *)
(***************************************************************************)
StartInit ==
    /\ InitRegistry
    /\ InitBuckets
    /\ token = [i \in Instances |-> ""]
    /\ authenticated = [i \in Instances |-> FALSE]
    /\ running = [i \in Instances |-> 0]
    /\ gor = [i \in Instances |-> [s \in Slots |-> Idle]]
    /\ metricsMu = NoHolder
    /\ cycles = 0
    /\ logins = [i \in Instances |-> 0]
    /\ lastEvent = <<"start", "", NoResp>>
    /\ history = <<>>
    /\ \E path \in Paths, file \in Files : process = Starting(path, file)
    /\ call = NoCall

StartNext ==
    \/ ReadAccessFile
    \/ StartCollector
    \/ \E bound \in BOOLEAN : Serve(bound)

StartSpec == StartInit /\ [][StartNext]_vars

(***************************************************************************)
(* ScalarSpec: updateCRBMetrics applied to any sequence of documents.      *)
(***************************************************************************)
ScalarInit ==
    /\ InitRegistry
    /\ InitBuckets
    /\ InitCollector
    /\ history = <<>>

ScalarUpdate(inst, data) ==
    /\ Len(history) < MaxUpdates
    /\ LET st == updateCRBMetrics(Registry, data, inst)
       IN  /\ previousCounterValues' = st.prev
           /\ crbMetrics' = st.ctr
           /\ crbGauges' = st.gauge
    /\ history' = Append(history, <<"stats", inst, data>>)
    /\ UNCHANGED <<histVars, fed, collectorVars>>

ScalarNext == \E inst \in Instances, data \in ScalarDocs : ScalarUpdate(inst, data)

ScalarSpec == ScalarInit /\ [][ScalarNext]_vars

(***************************************************************************)
(* HistSpec: updateHistograms applied to any sequence of responses.        *)
(***************************************************************************)
HistInit ==
    /\ InitRegistry
    /\ InitBuckets
    /\ InitCollector
    /\ history = <<>>

HistUpdate(inst, hist) ==
    \E orderW \in SortedOrders(hist.WriteDurationHistogram),
       orderC \in SortedOrders(hist.CycleExtensionDurationHistogram) :
        LET hs == updateHistograms(Buckets, hist, inst, orderW, orderC)
        IN  /\ Len(history) < MaxHistUpdates
            /\ prevWriteBuckets' = hs.prevWrite
            /\ prevCycleBuckets' = hs.prevCycle
            /\ writeDurationBuckets' = hs.write
            /\ cycleExtensionBuckets' = hs.cycle
            /\ fed' = hs.fed
            /\ history' = Append(history, <<"hist", inst, hist>>)
            /\ UNCHANGED <<scalarVars, collectorVars>>

HistNext == \E inst \in Instances, hist \in HistResponses : HistUpdate(inst, hist)

HistSpec == HistInit /\ [][HistNext]_vars

(***************************************************************************)
(* CodecSpec: parseBucketUpperBoundMs applied to labels of both forms and  *)
(* to any short text.                                                      *)
(***************************************************************************)
\* "0", "1", "5", "20", "0.0", "0.5", "1.0", "20.0", "1000000000",
\* "2000000000"
NumberTexts ==
    {<<"0">>, <<"1">>, <<"5">>, <<"2", "0">>, <<"0", ".", "0">>, <<"0", ".", "5">>,
     <<"1", ".", "0">>, <<"2", "0", ".", "0">>,
     <<"1", "0", "0", "0", "0", "0", "0", "0", "0", "0">>,
     <<"2", "0", "0", "0", "0", "0", "0", "0", "0", "0">>}

\* <low>-<high>ms
ClosedLabel(low, high) == low \o <<"-">> \o high \o <<"m", "s">>

\* <low>+ms
OpenLabel(low) == low \o <<"+", "m", "s">>

LabelChars == {"1", ".", "+", "-", "m", "s", "x"}

\* every text of at most MaxLabelLen characters
ShortTexts == UNION {[1..n -> LabelChars] : n \in 0..MaxLabelLen}

LabelTexts ==
    {ClosedLabel(low, high) : low \in NumberTexts, high \in NumberTexts}
        \cup {OpenLabel(low) : low \in NumberTexts}
        \cup ShortTexts

CodecInit ==
    /\ InitRegistry
    /\ InitBuckets
    /\ InitCollector
    /\ history = <<>>

\* the function keeps no state: one call per behaviour
ParseLabel(bucket) ==
    /\ call = NoCall
    /\ call' = [fn |-> "parseBucketUpperBoundMs", arg |-> bucket,
                ret |-> parseBucketUpperBoundMs(bucket)]
    /\ UNCHANGED <<scalarVars, histVars, sessionVars, running, gor, metricsMu, cycles, logins,
                   lastEvent, history, fed, process>>

CodecNext == \E bucket \in LabelTexts : ParseLabel(bucket)

CodecSpec == CodecInit /\ [][CodecNext]_vars

(***************************************************************************)
(* ExtractSpec: getNestedValue applied to documents of up to two levels    *)
(* and to paths of up to three names.                                      *)
(***************************************************************************)
\* values that are not maps: numbers of every accepted type, a json.Number
\* that does not convert, a string
LeafValues == {JFloat(1), JInt(2), JInt64(2), JNumber(1), JBadNumber, JString}

\* the maps with keys among names and values among vals
MapsOver(names, vals) == UNION {[ks -> vals] : ks \in SUBSET names}

NestedMaps == MapsOver({"b", ""}, {JFloat(1), JBadNumber, JString})

ExtractDocs == MapsOver({"a", ""}, LeafValues \cup {JMap(m) : m \in NestedMaps})

\* "", "a", "b", "a/b", "a/", "/a", "a/b/b"
ExtractPaths ==
    {<<>>, <<"a">>, <<"b">>, <<"a", "/", "b">>, <<"a", "/">>, <<"/", "a">>,
     <<"a", "/", "b", "/", "b">>}

ExtractInit ==
    /\ InitRegistry
    /\ InitBuckets
    /\ InitCollector
    /\ history = <<>>

\* the function keeps no state: one call per behaviour
Extract(data, path) ==
    /\ call = NoCall
    /\ call' = [fn |-> "getNestedValue", arg |-> <<data, path>>,
                ret |-> getNestedValue(data, path)]
    /\ UNCHANGED <<scalarVars, histVars, sessionVars, running, gor, metricsMu, cycles, logins,
                   lastEvent, history, fed, process>>

ExtractNext == \E data \in ExtractDocs, path \in ExtractPaths : Extract(data, path)

ExtractSpec == ExtractInit /\ [][ExtractNext]_vars

(***************************************************************************)
(* Observables used by the properties.                                     *)
(***************************************************************************)
\* value of the counter series of a metric and instance (0 while the child
\* does not exist)
Exported(name, inst) == MapGet(crbMetrics[name], inst)

\* the stored previous raw value of a key (Go's zero value when never stored)
LastRaw(name, inst) ==
    IF name \in DOMAIN previousCounterValues
    THEN MapGet(previousCounterValues[name], inst)
    ELSE 0

\* the raw reading of descriptor d that update e delivered for inst, as a
\* sequence of length 0 or 1
EntryReading(e, d, inst) ==
    IF e[1] = "stats" /\ e[2] = inst /\ HasPerformanceMetrics(e[3])
    THEN IF getNestedValue(e[3]["performanceMetrics"].m, crbMetricDescs[d].JSONName).ok
         THEN <<getNestedValue(e[3]["performanceMetrics"].m, crbMetricDescs[d].JSONName).v>>
         ELSE <<>>
    ELSE <<>>

\* the raw readings of descriptor d delivered for inst by the updates so far
RECURSIVE ReadingsOf(_, _, _)
ReadingsOf(h, d, inst) ==
    IF h = <<>> THEN <<>>
    ELSE EntryReading(Head(h), d, inst) \o ReadingsOf(Tail(h), d, inst)

Readings(d, inst) == ReadingsOf(history, d, inst)

\* sum over the readings r[i..] of max(0, r[i] - previous reading)
RECURSIVE SumDeltas(_, _, _)
SumDeltas(r, before, i) ==
    IF i > Len(r) THEN 0
    ELSE Max(0, r[i] - before) + SumDeltas(r, r[i], i + 1)

CounterKeys == CounterDescs \X Instances

LastOf(r) == IF r = <<>> THEN <<>> ELSE <<r[Len(r)]>>

\* the step took reading v of a key whose reading before was last
RebasedBy(name, inst, last, v) ==
    /\ LastRaw(name, inst) = last
    /\ LastRaw(name, inst)' = v
    /\ (v <= last => Exported(name, inst)' = Exported(name, inst))
    /\ Exported(name, inst)' = Exported(name, inst) + Max(0, v - last)

\* last and new are the reading before the step and the reading of the step
RebasedIfRead(k, last, new) ==
    (last # <<>> /\ new # <<>>) =>
        RebasedBy(crbMetricDescs[k[1]].PromName, k[2], last[1], new[1])

\* C3: a reading not above the previous one leaves the exported value as it
\* is and becomes the stored last-raw value; every reading after the first is
\* measured against the reading before it.
C3_ResetRebasesLastRaw ==
    [][Len(history') = Len(history) + 1 =>
          \A k \in CounterKeys :
              RebasedIfRead(k, LastOf(Readings(k[1], k[2])),
                            EntryReading(history'[Len(history')], k[1], k[2]))]_vars

\* a key that was reset (second reading below the first) and then rose again,
\* the rise being counted from the reset value
C3_Witness ==
    \E k \in CounterKeys :
        LET r == Readings(k[1], k[2])
        IN  /\ Len(r) = 3
            /\ r[2] <= r[1]
            /\ r[3] > r[2]
            /\ LastRaw(crbMetricDescs[k[1]].PromName, k[2]) = r[3]
            /\ Exported(crbMetricDescs[k[1]].PromName, k[2]) = r[1] + (r[3] - r[2])

(***************************************************************************)
(* Properties of updateHistograms.                                         *)
(***************************************************************************)
RECURSIVE SumCounts(_, _)
SumCounts(m, keys) ==
    IF keys = {} THEN 0
    ELSE LET k == CHOOSE x \in keys : TRUE
         IN  m[k] + SumCounts(m, keys \ {k})

\* sum of the counts of the reported buckets whose upper bound is at most ub
CountUpTo(m, ub) == SumCounts(m, {k \in DOMAIN m : ~FloatLess(ub, UpperBound[k])})

\* f is what one bucket loop fed to the delta rule for the reported map m
FedAscending(f) ==
    \A i, j \in 1..Len(f) :
        i < j => ~FloatLess(UpperBound[f[j].label], UpperBound[f[i].label])

FedCumulative(f, m) ==
    \A i \in 1..Len(f) : f[i].cumulative = CountUpTo(m, UpperBound[f[i].label])

\* C4: the buckets are processed in ascending order of upper bound and each
\* cumulative count passed to the delta rule is the sum of the counts of all
\* reported buckets whose upper bound is at most the boundary.
C4_FedIsCumulativeCount ==
    history # <<>> =>
        LET hist == history[Len(history)][3]
        IN  /\ FedAscending(fed.write) /\ FedAscending(fed.cycle)
            /\ FedCumulative(fed.write, hist.WriteDurationHistogram)
            /\ FedCumulative(fed.cycle, hist.CycleExtensionDurationHistogram)

LeLess(le1, le2) == FloatLess(<<le1.whole, le1.frac>>, <<le2.whole, le2.frac>>)

CumulativeAcrossBounds(vec) ==
    \A c1, c2 \in DOMAIN vec :
        (c1[1] = c2[1] /\ LeLess(c1[2], c2[2])) => vec[c1] <= vec[c2]

\* C5: in every reachable state, for one instance and histogram kind, the
\* exported count of a smaller upper bound is at most that of a larger one.
C5_BucketsCumulative ==
    /\ CumulativeAcrossBounds(writeDurationBuckets)
    /\ CumulativeAcrossBounds(cycleExtensionBuckets)

NeverDecreases(vec, vecNext) ==
    \A child \in DOMAIN vec : child \in DOMAIN vecNext /\ vecNext[child] >= vec[child]

\* C6: no exported bucket count ever decreases (nor disappears), also when
\* the cumulative count of an update is below the stored one.
C6_BucketNeverDecreases ==
    [][/\ NeverDecreases(writeDurationBuckets, writeDurationBuckets')
       /\ NeverDecreases(cycleExtensionBuckets, cycleExtensionBuckets')]_vars

\* a bucket whose stored cumulative count has fallen below its exported count
C6_Witness ==
    \E child \in DOMAIN writeDurationBuckets :
        /\ writeDurationBuckets[child] > 0
        /\ MapGet(prevWriteBuckets, BucketKey(child[1], child[2])) < writeDurationBuckets[child]

(***************************************************************************)
(* Properties of the collector.                                            *)
(***************************************************************************)
\* C2: over the cycles of all instances, whatever the devices answer and
\* whichever cycles fail, no exported counter value decreases and no counter
\* series disappears.
C2_CounterNeverDecreases ==
    [][\A k \in CounterKeys :
          /\ Exported(crbMetricDescs[k[1]].PromName, k[2])' >=
                 Exported(crbMetricDescs[k[1]].PromName, k[2])
          /\ k[2] \in DOMAIN crbMetrics[crbMetricDescs[k[1]].PromName] =>
                 k[2] \in DOMAIN crbMetrics'[crbMetricDescs[k[1]].PromName]]_vars

\* a counter whose device reset its raw value below what has been exported,
\* after a cycle of the collector
C2_Witness ==
    \E k \in CounterKeys :
        /\ cycles >= 2
        /\ Exported(crbMetricDescs[k[1]].PromName, k[2]) > 0
        /\ crbMetricDescs[k[1]].PromName \in DOMAIN previousCounterValues
        /\ LastRaw(crbMetricDescs[k[1]].PromName, k[2]) <
               Exported(crbMetricDescs[k[1]].PromName, k[2])

\* a tick of instance i fired
Ticked(i) == lastEvent' = <<"tick", i, NoResp>>

\* the metric state labelled with an instance
Only(m, inst) == [k \in (DOMAIN m) \cap {inst} |-> m[k]]

OwnKeys(m, inst) == [k \in {x \in DOMAIN m : x[1] = inst} |-> m[k]]

OwnScalar(st, inst) ==
    [prev  |-> [n \in {x \in DOMAIN st.prev : inst \in DOMAIN st.prev[x]} |->
                   Only(st.prev[n], inst)],
     ctr   |-> [n \in DOMAIN st.ctr |-> Only(st.ctr[n], inst)],
     gauge |-> [n \in DOMAIN st.gauge |-> Only(st.gauge[n], inst)]]

OwnBuckets(hs, inst) ==
    [prevWrite |-> OwnKeys(hs.prevWrite, inst), prevCycle |-> OwnKeys(hs.prevCycle, inst),
     write |-> OwnKeys(hs.write, inst), cycle |-> OwnKeys(hs.cycle, inst)]

\* no series and no stored previous value is labelled with inst
NoSeries(inst) ==
    /\ OwnScalar(Registry, inst) = OwnScalar([prev |-> EmptyMap, ctr |-> initCRBMetrics(counter),
                                              gauge |-> initCRBMetrics(gauge)], inst)
    /\ \A x \in DOMAIN prevWriteBuckets \cup DOMAIN prevCycleBuckets : x[1] # inst
    /\ \A c \in DOMAIN writeDurationBuckets \cup DOMAIN cycleExtensionBuckets : c[1] # inst

SessionUnchanged(i) == token'[i] = token[i] /\ authenticated'[i] = authenticated[i]

MetricsUnchanged(i) ==
    /\ OwnScalar(Registry, i)' = OwnScalar(Registry, i)
    /\ OwnBuckets(Buckets, i)' = OwnBuckets(Buckets, i)

\* C7: an instance never has two cycles in flight, and a tick that fires
\* while a cycle of the instance is in flight starts nothing and leaves the
\* instance's goroutines, session and metric state as they are.
C7_OverlapGuard ==
    /\ [](\A i \in Instances : Cardinality(Active(i)) <= 1)
    /\ [][\A i \in Instances :
             (Ticked(i) /\ Active(i) # {}) =>
                 /\ gor'[i] = gor[i]
                 /\ SessionUnchanged(i)
                 /\ MetricsUnchanged(i)
                 /\ UNCHANGED <<scalarVars, histVars>>]_vars

\* a tick fired while the instance's cycle was past its first request
C7_Witness ==
    \E i \in Instances, s \in Slots :
        /\ lastEvent = <<"tick", i, NoResp>>
        /\ running[i] = 1
        /\ gor[i][s].pc \in {"histLock", "histUpdate", "statsLock", "statsUpdate", "exit"}

\* the scalar update of instance i, computed from the state labelled with i
ScalarAlone(i, data) ==
    OwnScalar(Registry, i)' = OwnScalar(updateCRBMetrics(OwnScalar(Registry, i), data, i), i)

\* the histogram update of instance i, computed from the state labelled with i
HistAlone(i, hist) ==
    \E orderW \in SortedOrders(hist.WriteDurationHistogram),
       orderC \in SortedOrders(hist.CycleExtensionDurationHistogram) :
        OwnBuckets(Buckets, i)' =
            OwnBuckets(updateHistograms(OwnBuckets(Buckets, i), hist, i, orderW, orderC), i)

\* what a step does to the metric state labelled with instance y
OwnEffect(y) ==
    IF lastEvent'[2] = y /\ lastEvent'[1] = "statsApply"
    THEN /\ ScalarAlone(y, gor[y][metricsMu[2]].body)
         /\ OwnBuckets(Buckets, y)' = OwnBuckets(Buckets, y)
    ELSE IF lastEvent'[2] = y /\ lastEvent'[1] = "histApply"
    THEN /\ HistAlone(y, gor[y][metricsMu[2]].body)
         /\ OwnScalar(Registry, y)' = OwnScalar(Registry, y)
    ELSE MetricsUnchanged(y)

\* every metric and stored previous value is labelled with an instance
AllLabelled ==
    /\ \A x \in DOMAIN prevWriteBuckets \cup DOMAIN prevCycleBuckets : x[1] \in Instances
    /\ \A c \in DOMAIN writeDurationBuckets \cup DOMAIN cycleExtensionBuckets :
           c[1] \in Instances

\* C8: an instance whose logins have all failed has no series and no stored
\* previous value; the metric state labelled with an instance changes only
\* in that instance's own updates, and there it is the result of the update
\* applied to that instance's state alone.
C8_FailingDeviceIsolated ==
    /\ [](\A x \in Instances : logins[x] = 0 => NoSeries(x))
    /\ [](AllLabelled)
    /\ [][\A y \in Instances : OwnEffect(y)]_vars

\* instance y has just updated its counters while the only cycle of
\* instance x has ended in a failed login
C8_Witness ==
    \E x, y \in Instances :
        /\ x # y
        /\ logins[x] = 0 /\ running[x] = 0 /\ cycles = 2
        /\ lastEvent = <<"statsApply", y, NoResp>>
        /\ \E k \in CounterDescs : Exported(crbMetricDescs[k].PromName, y) > 0
        /\ NoSeries(x)

\* the device answered 200 with a body that is not JSON
Unparsable(resp) == ~resp.err /\ resp.status = StatusOK /\ ~resp.body.json

C10_FailedLoginSkipsCycle ==
    [][\A i \in Instances, s \in Slots :
          (gor[i][s].pc = "login" /\ lastEvent'[1] = "loginDone" /\ lastEvent'[2] = i
              /\ gor'[i][s] # gor[i][s] /\ lastEvent'[3] \in LoginFailures) =>
              /\ ~authenticated'[i] /\ token'[i] = ""
              /\ gor'[i][s] = [pc |-> "exit", sent |-> "", body |-> NoBody]
              /\ UNCHANGED <<scalarVars, histVars>>]_vars

\* a login of an instance that has series failed, the answer lacking the
\* accessToken
C10_Witness ==
    \E i \in Instances, s \in Slots :
        /\ lastEvent = <<"loginDone", i, Http(StatusOK, JsonBody([user |-> JString]))>>
        /\ gor[i][s].pc = "exit"
        /\ ~authenticated[i] /\ token[i] = ""
        /\ ~NoSeries(i)

\* the request ended in a transport error or in a status other than 200
FetchFailed(resp) == resp.err \/ resp.status # StatusOK

\* the goroutine in slot s of instance i received the answer to a data request
DataAnswered(i, s) ==
    /\ gor[i][s].pc \in {"hist", "stats"}
    /\ lastEvent'[1] = (IF gor[i][s].pc = "hist" THEN "histDone" ELSE "statsDone")
    /\ lastEvent'[2] = i
    /\ gor'[i][s] # gor[i][s]

\* C11: a data request that ends in a transport error or a status other than
\* 200 drops the session (authenticated false, token empty) and ends the
\* cycle: no request is sent after it and no metric changes.
C11_FailedFetchDropsSession ==
    [][\A i \in Instances, s \in Slots :
          (DataAnswered(i, s) /\ FetchFailed(lastEvent'[3])) =>
              /\ ~authenticated'[i] /\ token'[i] = ""
              /\ gor'[i][s] = [pc |-> "exit", sent |-> "", body |-> NoBody]
              /\ UNCHANGED <<scalarVars, histVars>>]_vars

\* the histogram request of an instance that had logged in got a status
\* other than 200: the session is gone and the instance has no series
C11_Witness ==
    \E i \in Instances, s \in Slots :
        /\ lastEvent[1] = "histDone" /\ lastEvent[2] = i
        /\ ~lastEvent[3].err /\ lastEvent[3].status \in NonOKStatuses
        /\ logins[i] > 0
        /\ gor[i][s].pc = "exit"
        /\ ~authenticated[i] /\ token[i] = ""
        /\ NoSeries(i)

\* the goroutine in slot s of instance i took a step
Stepped(i, s) == gor'[i][s] # gor[i][s]

\* the goroutine is past its cycle body: in its deferred calls, or gone
PastBody(i, s) == gor[i][s].pc \in {"recover", "exit", "none"}

\* C12: a panic in the cycle body enters the deferred recover function with
\* the mutex released; the recover function drops the session (authenticated
\* false, token empty) and the goroutine goes to its deferred exit without
\* another request or update; a goroutine past its body never holds the
\* mutex; and a goroutine that recovers always comes to clear the running
\* flag, so that a later tick of the instance starts a cycle.
C12_PanicRecovered ==
    /\ [](\A i \in Instances, s \in Slots : PastBody(i, s) => metricsMu # <<i, s>>)
    /\ [][\A i \in Instances, s \in Slots :
             /\ (Stepped(i, s) /\ lastEvent'[1] = "panic" /\ lastEvent'[2] = i) =>
                    /\ gor'[i][s] = [pc |-> "recover", sent |-> "", body |-> NoBody]
                    /\ metricsMu' # <<i, s>>
                    /\ UNCHANGED <<scalarVars, histVars>>
             /\ (Stepped(i, s) /\ gor[i][s].pc = "recover") =>
                    /\ ~authenticated'[i] /\ token'[i] = ""
                    /\ gor'[i][s] = [pc |-> "exit", sent |-> "", body |-> NoBody]
                    /\ UNCHANGED <<scalarVars, histVars, metricsMu>>]_vars
    /\ \A i \in Instances :
           (\E s \in Slots : gor[i][s].pc = "recover") ~>
               (running[i] = 0 /\ Active(i) = {} /\ ~authenticated[i] /\ token[i] = "")

\* an instance that had logged in and updated its histogram series has
\* recovered from a panic raised before its scalar update finished
C12_Witness ==
    \E i \in Instances, s \in Slots :
        /\ lastEvent = <<"recover", i, NoResp>>
        /\ gor[i][s].pc = "exit"
        /\ logins[i] > 0
        /\ ~authenticated[i] /\ token[i] = ""
        /\ metricsMu = NoHolder
        /\ \E c \in DOMAIN writeDurationBuckets : c[1] = i
        /\ \A n \in DOMAIN crbMetrics : i \notin DOMAIN crbMetrics[n]

\* C13: every cycle that has started completes and clears the running
\* flag, whatever the device does, a device that never answers included.
C13_CycleCompletes ==
    \A i \in Instances : (running[i] = 1) ~> (running[i] = 0)

\* the access file gives at least one device
ValidDeviceList(p) ==
    /\ ~readAccessFile(p.path, p.file).fatal
    /\ readAccessFile(p.path, p.file).list # <<>>

\* C14: without a valid device list (path unset, file unreadable or
\* unparsable, no device record) the process ends in readAccessFile: it
\* starts no collector and never serves /metrics.
C14_NoDeviceListIsFatal ==
    ~ValidDeviceList(process) =>
        /\ process.collectors = <<>>
        /\ ~process.endpoint

\* what readAccessFile does end the process for: an unset path, a file
\* that cannot be opened or read, bytes that do not decode
StartTypeOK ==
    /\ process.phase \in {"readAccessFile", "startCollectors", "serving", "exited"}
    /\ readAccessFile(process.path, process.file).fatal =>
          process.phase \in {"readAccessFile", "exited"} /\ ~process.endpoint

\* the last step was an error that ended the cycle of instance i: a login
\* that failed, a data request that failed or whose answer did not decode,
\* or a panic
CycleFailed(i) ==
    /\ lastEvent[2] = i
    /\ \E s \in Slots : gor[i][s].pc \in {"exit", "recover"}
    /\ \/ lastEvent[1] = "loginDone" /\ lastEvent[3] \in LoginFailures
       \/ lastEvent[1] \in {"histDone", "statsDone"}
             /\ (FetchFailed(lastEvent[3]) \/ Unparsable(lastEvent[3]))
       \/ lastEvent[1] = "panic"

\* C15: after startup the process keeps running and serving /metrics
\* whatever a cycle meets, and a cycle ended by a login, transport or parse
\* error or by a panic clears the running flag, so that the loop of its
\* device goes on with the next tick.
C15_ErrorsNeverStopTheProcess ==
    /\ [](process.phase = "serving" /\ process.endpoint)
    /\ \A i \in Instances : CycleFailed(i) ~> (running[i] = 0 /\ Active(i) = {})

\* a cycle of a device that had logged in was ended by an error or a panic,
\* its flag is cleared, and the process still serves
C15_Witness ==
    \E i \in Instances :
        /\ lastEvent = <<"exit", i, NoResp>>
        /\ logins[i] > 0 /\ ~authenticated[i] /\ token[i] = ""
        /\ running[i] = 0 /\ Active(i) = {}
        /\ cycles = MaxCycles
        /\ process.phase = "serving" /\ process.endpoint

\* the goroutine has a login or data request out and waits for the answer
InNetworkCall(i, s) == gor[i][s].pc \in {"login", "hist", "stats"}

InUpdate(i, s) == gor[i][s].pc \in {"histUpdate", "statsUpdate"}

\* C16: a goroutine with a request out does not hold metricsMu; the mutex
\* is held only by a goroutine inside an update, so a goroutine waiting for
\* the mutex waits for an update only, never for a device.
C16_NoLockAcrossNetworkCall ==
    /\ \A i \in Instances, s \in Slots : InNetworkCall(i, s) => metricsMu # <<i, s>>
    /\ metricsMu # NoHolder =>
          \E i \in Instances, s \in Slots : metricsMu = <<i, s>> /\ InUpdate(i, s)

\* one device has a request out while the goroutine of another device holds
\* the mutex inside its update
C16_Witness ==
    \E i \in Instances, j \in Instances, s \in Slots, t \in Slots :
        /\ i # j
        /\ InNetworkCall(i, s)
        /\ metricsMu = <<j, t>>
        /\ InUpdate(j, t)

\* the goroutines inside an update
Updating == {g \in Instances \X Slots : InUpdate(g[1], g[2])}

\* C17: at most one goroutine, over all instances, is inside the
\* read-modify-write of updateCRBMetrics or updateHistograms, and it is the
\* holder of metricsMu; the delta tracker and the exported values change
\* only in a step of that goroutine.
C17_UpdatesMutuallyExclusive ==
    /\ [](Cardinality(Updating) <= 1 /\ Updating \subseteq {metricsMu})
    /\ [][(scalarVars' # scalarVars \/ histVars' # histVars) =>
             /\ metricsMu \in Updating
             /\ gor'[metricsMu[1]][metricsMu[2]] # gor[metricsMu[1]][metricsMu[2]]
             /\ \A g \in (Instances \X Slots) \ {metricsMu} : gor'[g[1]][g[2]] = gor[g[1]][g[2]]]_vars

\* the goroutine of one device is inside its update, with series of that
\* device exported by an earlier update, while the goroutine of another
\* device, answer in hand, waits for the mutex
C17_Witness ==
    \E i \in Instances, j \in Instances, s \in Slots, t \in Slots :
        /\ i # j
        /\ metricsMu = <<i, s>>
        /\ gor[i][s].pc = "statsUpdate"
        /\ \E c \in DOMAIN writeDurationBuckets : c[1] = i
        /\ gor[j][t].pc \in {"histLock", "statsLock"}

\* every child of the vector is a child of it after the step
ChildrenKept(vec, vecNext) == DOMAIN vec \subseteq DOMAIN vecNext

\* every child of the counter vector is a child after the step, with a
\* value that is not smaller
CounterKept(vec, vecNext) ==
    \A k \in DOMAIN vec : k \in DOMAIN vecNext /\ vecNext[k] >= vec[k]

\* what a scrape serves
Served == <<crbMetrics, crbGauges, writeDurationBuckets, cycleExtensionBuckets>>

\* C18: a series that a scrape has served is served by every later scrape:
\* no step removes a child of a counter, gauge or bucket vector or lowers a
\* counter or bucket, and a step that is not the body of an update (a tick,
\* an answer of a device whatever it is, a panic, a recover, an exit) leaves
\* every served value as it is.
C18_SeriesNeverRemoved ==
    [][/\ \A n \in DOMAIN crbMetrics :
              n \in DOMAIN crbMetrics' /\ CounterKept(crbMetrics[n], crbMetrics'[n])
       /\ \A n \in DOMAIN crbGauges :
              n \in DOMAIN crbGauges' /\ ChildrenKept(crbGauges[n], crbGauges'[n])
       /\ CounterKept(writeDurationBuckets, writeDurationBuckets')
       /\ CounterKept(cycleExtensionBuckets, cycleExtensionBuckets')
       /\ lastEvent'[1] \notin {"histApply", "statsApply"} => UNCHANGED Served]_vars

\* a device has gauge and bucket series from an earlier cycle, and the last
\* step was a data request of a later cycle that failed and dropped its
\* session
C18_Witness ==
    \E i \in Instances, n \in DOMAIN crbGauges :
        /\ lastEvent[1] \in {"histDone", "statsDone"} /\ lastEvent[2] = i
        /\ FetchFailed(lastEvent[3])
        /\ ~authenticated[i]
        /\ i \in DOMAIN crbGauges[n]
        /\ \E c \in DOMAIN writeDurationBuckets : c[1] = i

\* what update e did to the gauge of descriptor d: the value it delivered
\* is the value of the gauge of its instance; without a value the gauge of
\* its instance is as it was, an absent series included
GaugeSetBy(e, d, r) ==
    IF r # <<>>
    THEN /\ e[2] \in DOMAIN crbGauges'[crbMetricDescs[d].PromName]
         /\ crbGauges'[crbMetricDescs[d].PromName][e[2]] = r[1]
    ELSE Only(crbGauges'[crbMetricDescs[d].PromName], e[2])
             = Only(crbGauges[crbMetricDescs[d].PromName], e[2])

\* the update that the step appended to the history
LastUpdate == history'[Len(history')]

\* C19: after updateCRBMetrics for instance X every gauge whose field the
\* document delivers equals the delivered value, whatever the gauge was
\* before (larger, smaller, absent); a gauge whose field the document does
\* not deliver is as it was before the call.
C19_GaugeIsExtractedValue ==
    [][history' # history =>
          \A d \in GaugeDescs :
              GaugeSetBy(LastUpdate, d, EntryReading(LastUpdate, d, LastUpdate[2]))]_vars

\* three updates of one device: a gauge was set to the largest value, then
\* to a smaller one, and the third document, which has performanceMetrics
\* but not the field, left it there
C19_Witness ==
    \E X \in Instances, d \in GaugeDescs :
        /\ Len(history) = 3
        /\ \A k \in 1..3 : history[k][2] = X
        /\ EntryReading(history[1], d, X) = <<MaxRaw>>
        /\ EntryReading(history[2], d, X) # <<>>
        /\ EntryReading(history[2], d, X)[1] \in 1..(MaxRaw - 1)
        /\ HasPerformanceMetrics(history[3][3])
        /\ EntryReading(history[3], d, X) = <<>>
        /\ crbGauges[crbMetricDescs[d].PromName][X] = EntryReading(history[2], d, X)[1]

\* the stored previous raw value of a key in the tracker p, as a sequence
\* of length 0 or 1
StoredRaw(p, name, inst) ==
    IF name \in DOMAIN p /\ inst \in DOMAIN p[name] THEN <<p[name][inst]>> ELSE <<>>

\* descriptor d, which update e does not deliver, is as it was for the
\* instance of e: exported value and stored raw value
DescSkipped(e, d) ==
    IF crbMetricDescs[d].Type = counter
    THEN /\ Only(crbMetrics'[crbMetricDescs[d].PromName], e[2])
                = Only(crbMetrics[crbMetricDescs[d].PromName], e[2])
         /\ StoredRaw(previousCounterValues', crbMetricDescs[d].PromName, e[2])
                = StoredRaw(previousCounterValues, crbMetricDescs[d].PromName, e[2])
    ELSE Only(crbGauges'[crbMetricDescs[d].PromName], e[2])
             = Only(crbGauges[crbMetricDescs[d].PromName], e[2])

\* descriptor d, which update e delivers with value v, is updated: a
\* counter stores v and grows by the positive delta, a gauge is v
DescUpdated(e, d, v) ==
    IF crbMetricDescs[d].Type = counter
    THEN /\ StoredRaw(previousCounterValues', crbMetricDescs[d].PromName, e[2]) = <<v>>
         /\ MapGet(crbMetrics'[crbMetricDescs[d].PromName], e[2])
                = Exported(crbMetricDescs[d].PromName, e[2])
                      + Max(0, v - LastRaw(crbMetricDescs[d].PromName, e[2]))
    ELSE MapGet(crbGauges'[crbMetricDescs[d].PromName], e[2]) = v

DescHandled(e, d, r) == IF r = <<>> THEN DescSkipped(e, d) ELSE DescUpdated(e, d, r[1])

\* C20: in an update whose document has performanceMetrics, a descriptor
\* whose field is absent or not a number keeps its exported value and its
\* stored raw value, and every descriptor whose field is delivered is
\* updated by the same call, wherever it stands in the list.
C20_AbsentFieldSkippedAlone ==
    [][(history' # history /\ HasPerformanceMetrics(LastUpdate[3])) =>
          \A d \in DescIdx :
              DescHandled(LastUpdate, d, EntryReading(LastUpdate, d, LastUpdate[2]))]_vars

\* the second update of a device delivered one counter, which grew to the
\* delivered value, and not another, which kept the value and the raw value
\* of the first update
C20_Witness ==
    \E X \in Instances, d1 \in CounterDescs, d2 \in CounterDescs :
        /\ Len(history) = 2
        /\ history[1][2] = X /\ history[2][2] = X
        /\ HasPerformanceMetrics(history[2][3])
        /\ EntryReading(history[1], d1, X) # <<>>
        /\ EntryReading(history[2], d1, X) # <<>>
        /\ EntryReading(history[2], d1, X)[1] > EntryReading(history[1], d1, X)[1]
        /\ Exported(crbMetricDescs[d1].PromName, X) = EntryReading(history[2], d1, X)[1]
        /\ EntryReading(history[1], d2, X) # <<>>
        /\ EntryReading(history[1], d2, X)[1] > 0
        /\ EntryReading(history[2], d2, X) = <<>>
        /\ LastRaw(crbMetricDescs[d2].PromName, X) = EntryReading(history[1], d2, X)[1]
        /\ Exported(crbMetricDescs[d2].PromName, X) = EntryReading(history[1], d2, X)[1]

\* b[from..to-1] is a decimal number: digits, or digits, a point and digits
IsNumberText(b, from, to) ==
    /\ DigitsEnd(b, from) > from
    /\ \/ DigitsEnd(b, from) = to
       \/ /\ DigitsEnd(b, from) < to
          /\ b[DigitsEnd(b, from)] = "."
          /\ DigitsEnd(b, from) + 1 < to
          /\ DigitsEnd(b, DigitsEnd(b, from) + 1) = to

\* the text ends in "ms"
EndsInMs(b) == Len(b) >= 2 /\ b[Len(b) - 1] = "m" /\ b[Len(b)] = "s"

\* positions of the "-" that make b a label <low>-<high>ms
ClosedSplits(b) ==
    {p \in 2..(Len(b) - 3) :
        EndsInMs(b) /\ b[p] = "-" /\ IsNumberText(b, 1, p) /\ IsNumberText(b, p + 1, Len(b) - 1)}

\* b is a label <low>+ms
OpenForm(b) ==
    /\ Len(b) >= 4
    /\ EndsInMs(b)
    /\ b[Len(b) - 2] = "+"
    /\ IsNumberText(b, 1, Len(b) - 2)

\* the number a decimal text b[from..to-1] denotes, in thousandths
NumberValue(b, from, to) ==
    <<WholeVal(b, from, DigitsEnd(b, from), 0), FracVal(b, DigitsEnd(b, from) + 1, to)>>

\* C21: parseBucketUpperBoundMs gives <high> for a label <low>-<high>ms,
\* the sentinel for a label <low>+ms, and 0 for a text of neither form.
C21_CodecMapsLabels ==
    call.fn = "parseBucketUpperBoundMs" =>
        /\ \A p \in ClosedSplits(call.arg) :
               call.ret = NumberValue(call.arg, p + 1, Len(call.arg) - 1)
        /\ OpenForm(call.arg) => call.ret = <<SentinelMs, 0>>
        /\ (ClosedSplits(call.arg) = {} /\ ~OpenForm(call.arg)) => call.ret = <<0, 0>>

\* the part of C21 that the code does: both forms give what the spec says,
\* and a text that does not end in a number followed by "ms" or "+ms"
\* gives 0
CodecFormsOK ==
    call.fn = "parseBucketUpperBoundMs" =>
        /\ \A p \in ClosedSplits(call.arg) :
               call.ret = NumberValue(call.arg, p + 1, Len(call.arg) - 1)
        /\ OpenForm(call.arg) => call.ret = <<SentinelMs, 0>>
        /\ ~EndsInMs(call.arg) => call.ret = <<0, 0>>

\* the value under the names parts[i..] below the value current, as a
\* sequence of length 0 or 1: none when a name is missing or the value it
\* is looked up in is not a map
RECURSIVE ValueAt(_, _, _)
ValueAt(current, parts, i) ==
    IF i > Len(parts) THEN <<current>>
    ELSE IF current.kind # "map" THEN <<>>
    ELSE IF parts[i] \notin DOMAIN current.m THEN <<>>
    ELSE ValueAt(current.m[parts[i]], parts, i + 1)

\* an integer or floating-point number
IsNumeric(val) == val.kind \in {"float64", "int", "int64", "json.Number"}

\* what extract returns for a path that is not empty
ExtractOf(at) ==
    IF at = <<>> THEN Absent
    ELSE IF IsNumeric(at[1]) THEN Found(at[1].v)
    ELSE Absent

\* C22: getNestedValue returns absent for the empty path, for a path with
\* a segment that is missing or looked up in a value that is not a map, and
\* for a value at the path that is not a number; otherwise it returns the
\* number at the path.
C22_ExtractAbsentOrNumber ==
    call.fn = "getNestedValue" =>
        call.ret = IF call.arg[2] = <<>>
                   THEN Absent
                   ELSE ExtractOf(ValueAt(JMap(call.arg[1]), Split(call.arg[2]), 1))

\* the part of C22 that the code does: every path that is not empty
ExtractNonEmptyPathOK ==
    (call.fn = "getNestedValue" /\ call.arg[2] # <<>>) =>
        call.ret = ExtractOf(ValueAt(JMap(call.arg[1]), Split(call.arg[2]), 1))

\* the step started a cycle of instance i whose first request is req
CycleStartedWith(i, req) ==
    \E s \in Slots : gor[i][s].pc = "none" /\ gor'[i][s].pc = req

\* the event ev is a login or data request of instance i that failed, or a
\* panic in a cycle of instance i or its recovery
SessionLostBy(ev, i) ==
    /\ ev[2] = i
    /\ \/ ev[1] = "loginDone" /\ ev[3] \in LoginFailures
       \/ ev[1] \in {"histDone", "statsDone"} /\ FetchFailed(ev[3])
       \/ ev[1] \in {"panic", "recover"}

SessionLost(i) == SessionLostBy(lastEvent, i)

\* no request of instance i is waiting for its answer
NoRequestOut(i) == \A s \in Slots : ~InNetworkCall(i, s)

\* instance i holds a session
HoldsSession(i) == authenticated[i] /\ token[i] # ""

\* the step started a cycle of instance i
CycleStarted(i) == Ticked(i) /\ running[i] = 0 /\ running'[i] = 1

\* both fetches of instance i have succeeded and their updates have run:
\* bucket series and counter series of i are exported
FetchesSucceeded(i) ==
    /\ \E c \in DOMAIN writeDurationBuckets : c[1] = i
    /\ \E n \in DOMAIN crbMetrics : i \in DOMAIN crbMetrics[n]

\* C23: a cycle of a device that is not authenticated (never logged in,
\* or its session dropped by a failed login, a failed fetch or a panic)
\* starts with the login request; a cycle of a device that is authenticated
\* and whose fetches have succeeded starts with the histogram request, so a
\* device whose login was accepted and that lost no session since logs in
\* once; the device stops being
\* authenticated only in a step that is a failed login, a failed fetch or a
\* panic; and, when every request of the device is answered, a login
\* request leads to the device being authenticated or to such a failure.
C23_LoginAfterDropThenOnce ==
    /\ [][\A i \in Instances :
             /\ (CycleStarted(i) /\ ~authenticated[i]) => CycleStartedWith(i, "login")
             /\ (CycleStarted(i) /\ authenticated[i] /\ FetchesSucceeded(i)) =>
                    CycleStartedWith(i, "hist")
             /\ (authenticated[i] /\ ~authenticated'[i]) => SessionLostBy(lastEvent', i)]_vars
    /\ \A i \in Instances :
           []<>NoRequestOut(i) =>
               ((\E s \in Slots : gor[i][s].pc = "login") ~> (authenticated[i] \/ SessionLost(i)))

\* the part of C23 that the code does, for logins that return a token that
\* is not empty: a cycle that starts without a session starts with the
\* login request, a cycle that starts with a session starts with the
\* histogram request and the stored token; a login is accepted only in a
\* cycle that started without a session; a session ends only in a step that
\* is a failed login, a failed fetch or a panic; and, when every request is
\* answered, a login request leads to a session, to such a failure, or to
\* an accepted login whose token is empty.
SessionWithTokenKept ==
    /\ [][\A i \in Instances :
             /\ (CycleStarted(i) /\ ~HoldsSession(i)) => CycleStartedWith(i, "login")
             /\ (CycleStarted(i) /\ HoldsSession(i)) =>
                    /\ CycleStartedWith(i, "hist")
                    /\ \A s \in Slots : gor'[i][s].pc = "hist" => gor'[i][s].sent = token[i]
             /\ logins'[i] # logins[i] => (~HoldsSession(i) /\ logins'[i] = logins[i] + 1)
             /\ (HoldsSession(i) /\ ~(authenticated'[i] /\ token'[i] # "")) =>
                    SessionLostBy(lastEvent', i)]_vars
    /\ \A i \in Instances :
           []<>NoRequestOut(i) =>
               ((\E s \in Slots : gor[i][s].pc = "login")
                    ~> (HoldsSession(i) \/ SessionLost(i) \/ (authenticated[i] /\ token[i] = "")))

\* the bound parsed from the last label is below the bound parsed from
\* every open-ended label
BelowEveryOpenLabel ==
    \A low \in NumberTexts : FloatLess(call.ret, parseBucketUpperBoundMs(OpenLabel(low)))

\* number of digits before the point of the number that starts at from
WholeDigits(b, from) == DigitsEnd(b, from) - from

SameResponseAgain ==
    /\ history # <<>>
    /\ history' = Append(history, history[Len(history)])

\* C25: updateHistograms called a second time in a row with the same
\* response for the same instance changes no exported bucket count,
\* whatever the response, responses with several labels of the same upper
\* bound included.
C25_SameResponseTwiceIdempotent ==
    [][SameResponseAgain => UNCHANGED <<writeDurationBuckets, cycleExtensionBuckets>>]_vars

\* no two labels of the histogram parse to the same upper bound
DistinctBounds(m) ==
    \A k1 \in DOMAIN m, k2 \in DOMAIN m : k1 # k2 => UpperBound[k1] # UpperBound[k2]

\* the part of C25 that the code does: responses whose labels parse to
\* distinct upper bounds
DistinctBoundsIdempotent ==
    [][(/\ SameResponseAgain
        /\ DistinctBounds(history[Len(history)][3].WriteDurationHistogram)
        /\ DistinctBounds(history[Len(history)][3].CycleExtensionDurationHistogram)) =>
           UNCHANGED <<writeDurationBuckets, cycleExtensionBuckets>>]_vars

\* the step ended the cycle body of the goroutine in slot s of instance i
BodyEnded(i, s) ==
    /\ gor[i][s].pc \notin {"none", "exit", "recover"}
    /\ gor'[i][s].pc \in {"none", "exit", "recover"}

\* C26: the running flag of a device is 1 exactly while a cycle goroutine
\* of it exists, and there is at most one; a cycle body that ends, however
\* it ends (failed login, failed histogram or scalar fetch, parse error,
\* panic, normal return), leaves the goroutine in its deferred calls with
\* the flag still set; the flag is cleared only by the last deferred call
\* of that goroutine, in a step that writes no session variable, so after
\* the recover function has written them; and a goroutine in its deferred
\* calls leads to the flag cleared.
C26_RunningFlagTracksCycle ==
    /\ [](\A i \in Instances :
             /\ Cardinality(Active(i)) <= 1
             /\ running[i] = (IF Active(i) # {} THEN 1 ELSE 0))
    /\ [][\A i \in Instances, s \in Slots :
             /\ BodyEnded(i, s) =>
                    /\ gor'[i][s].pc \in {"exit", "recover"}
                    /\ running'[i] = 1
             /\ (Stepped(i, s) /\ gor[i][s].pc = "recover") =>
                    /\ gor'[i][s].pc = "exit"
                    /\ running'[i] = 1
             /\ (Stepped(i, s) /\ running[i] = 1 /\ running'[i] = 0) =>
                    /\ gor[i][s].pc = "exit"
                    /\ gor'[i][s].pc = "none"
                    /\ UNCHANGED sessionVars]_vars
    /\ \A i \in Instances :
           (\E s \in Slots : gor[i][s].pc \in {"exit", "recover"}) ~> (running[i] = 0)

\* the recover function of a device that had logged in has written the
\* session variables, and the flag is still set
C26_Witness ==
    \E i \in Instances, s \in Slots :
        /\ lastEvent = <<"recover", i, NoResp>>
        /\ gor[i][s].pc = "exit"
        /\ running[i] = 1
        /\ logins[i] > 0 /\ ~authenticated[i] /\ token[i] = ""

\* the place of each call in the cycle
StepRank ==
    [none |-> 0, login |-> 1, hist |-> 2, histLock |-> 3, histUpdate |-> 4, stats |-> 5,
     statsLock |-> 6, statsUpdate |-> 7, recover |-> 8, exit |-> 9]

\* the goroutine has a data request out
InDataFetch(i, s) == gor[i][s].pc \in {"hist", "stats"}

\* the token that the login answer resp hands out
GrantedToken(resp) == resp.body.val["accessToken"].s

\* C27: a goroutine only moves forward through login, histogram fetch,
\* histogram update, scalar fetch, scalar update and its deferred calls
\* (the login is the first step or is left out, a histogram update is
\* entered from the histogram fetch only and a scalar update from the
\* scalar fetch only); while a data request is out the device is marked
\* authenticated and the request carries the stored token; and the stored
\* token is the one the last accepted login of the device handed out: it
\* is written only by a login answer, which stores the token of the answer,
\* and by a step that drops the session.
C27_CycleOrderAndToken ==
    /\ [](\A i \in Instances, s \in Slots :
             InDataFetch(i, s) => (authenticated[i] /\ gor[i][s].sent = token[i]))
    /\ [][\A i \in Instances, s \in Slots :
             /\ (Stepped(i, s) /\ gor'[i][s].pc # "none") =>
                    StepRank[gor'[i][s].pc] > StepRank[gor[i][s].pc]
             /\ (Stepped(i, s) /\ gor'[i][s].pc = "none") => gor[i][s].pc = "exit"
             /\ (Stepped(i, s) /\ gor'[i][s].pc = "login") => gor[i][s].pc = "none"
             /\ (Stepped(i, s) /\ gor'[i][s].pc = "hist") => gor[i][s].pc \in {"none", "login"}
             /\ (Stepped(i, s) /\ gor'[i][s].pc = "histLock") => gor[i][s].pc = "hist"
             /\ (Stepped(i, s) /\ gor'[i][s].pc = "histUpdate") => gor[i][s].pc = "histLock"
             /\ (Stepped(i, s) /\ gor'[i][s].pc = "stats") => gor[i][s].pc \in {"hist", "histUpdate"}
             /\ (Stepped(i, s) /\ gor'[i][s].pc = "statsLock") => gor[i][s].pc = "stats"
             /\ (Stepped(i, s) /\ gor'[i][s].pc = "statsUpdate") => gor[i][s].pc = "statsLock"
             /\ (Stepped(i, s) /\ gor[i][s].pc = "login" /\ gor'[i][s].pc = "hist") =>
                    /\ lastEvent'[1] = "loginDone"
                    /\ token'[i] = GrantedToken(lastEvent'[3])
                    /\ gor'[i][s].sent = GrantedToken(lastEvent'[3])
             /\ token'[i] # token[i] =>
                    \/ lastEvent'[1] = "loginDone" /\ lastEvent'[2] = i
                    \/ token'[i] = "" /\ ~authenticated'[i]]_vars

\* the second login of a device handed out another token than the first,
\* and the scalar request of that cycle carries it
C27_Witness ==
    \E i \in Instances, s \in Slots :
        /\ logins[i] = 2
        /\ gor[i][s].pc = "stats"
        /\ gor[i][s].sent = TokenNames[2]
        /\ token[i] = TokenNames[2]
        /\ authenticated[i]

====
